---- MODULE Spec2Model ----
(***************************************************************************)
(* Model of the go-vee gateway: LAN discovery (lan.DiscoverDevices), the   *)
(* LAN control commands (lan.TurnOn/TurnOff/SetBrightness/SetColor) and    *)
(* the LAN-first / cloud-fallback orchestration of                         *)
(* GoveeService.ControlDevice.                                             *)
(*                                                                         *)
(* One behaviour is one call: either service.ControlDevice(sku, deviceID,  *)
(* capability) or lan.DiscoverDevices(timeout).  The network is the        *)
(* environment: it decides which datagrams arrive, which socket            *)
(* operations fail and how the cloud answers.                              *)
(*                                                                         *)
(* Further specifications apply the LAN command functions and the          *)
(* capability translator on their own (PureSpec), run one HTTP request     *)
(* through GoveeHandler (HttpSpec), and run the package lan calls of two   *)
(* concurrent request workers socket by socket (LanSpec).                  *)
(***************************************************************************)
EXTENDS Integers, Sequences, FiniteSets, TLC

(***************************************************************************)
(* Bounds of the model                                                     *)
(***************************************************************************)
\* number of reads that return (a datagram or a non-timeout error) per scan
MaxReads == 3
\* largest timeout (in clock ticks) of a direct DiscoverDevices(timeout) call
MaxTimeout == 2

\* datagrams one DiscoverDevices call of a worker collects
MaxLanReads == 1

\* brightness arguments run from -MaxOver to 100 + MaxOver
MaxOver == 5
\* colour channels 0..MaxLow and 255-MaxLow..255 (and 127, 128) are combined
\* into the packed colour values
MaxLow == 1

(***************************************************************************)
(* Program constants                                                       *)
(***************************************************************************)
\* lan.DiscoverDevices(2 * time.Second): the clock tick is one second
DiscoveryTimeout == 2
BrightnessMin == 1
BrightnessMax == 100
ChannelMin == 0
ChannelMax == 255

(***************************************************************************)
(* Input domains                                                           *)
(***************************************************************************)
OnOff == "devices.capabilities.on_off"
Range == "devices.capabilities.range"
ColorSetting == "devices.capabilities.color_setting"

\* capability.Type: the three translated types, an untranslated one, and ""
CapTypes == {OnOff, Range, ColorSetting, "devices.capabilities.mode", ""}
\* capability.Instance
CapInstances == {"", "instance"}
\* capability.Value as decoded from JSON: a number (float64) or not a number
NumValues == {0, 1, 150}
CapValues == {[num |-> TRUE, v |-> n] : n \in NumValues}
                 \cup {[num |-> FALSE, v |-> 0]}
\* the deviceID of the request
DeviceIDs == {"d1"}

\* capability.Instance values of the vendor API, for the translator alone
TranslateInstances ==
    CapInstances \cup {"powerSwitch", "brightness", "colorRgb",
                       "colorTemperatureK"}
\* int arguments of SetBrightness: around the range, and two large ones
BrightnessArgs ==
    ((0 - MaxOver)..(BrightnessMax + MaxOver))
        \cup {-2147483647, -1000, 1000, 2147483647}
ChannelSamples == (0..MaxLow) \cup {127, 128} \cup ((255 - MaxLow)..255)
\* packed 24-bit colour values 0xRRGGBB
ColorValues ==
    {r * 65536 + g * 256 + b : r \in ChannelSamples, g \in ChannelSamples,
                                b \in ChannelSamples}
\* capabilities given to the translator alone
TranslateCaps ==
    [Type : CapTypes, Instance : TranslateInstances,
     Value : CapValues \cup {[num |-> TRUE, v |-> n] : n \in ColorValues}]

\* datagrams that may arrive on the receive socket: JSON that decodes into a
\* ScanResponse (ip and device of msg.data), or bytes that do not decode
\* (malformed JSON, a field of the wrong JSON type, or a reply cut at the
\* 1024 bytes of the buffer)
Datagrams == {[json |-> TRUE, ip |-> "ip1", device |-> "d1"],
              [json |-> TRUE, ip |-> "ip2", device |-> "d1"],
              [json |-> TRUE, ip |-> "ip3", device |-> "d2"],
              [json |-> FALSE, ip |-> "", device |-> ""]}

\* the buffer content of a read that returned an error
NoDatagram == [json |-> FALSE, ip |-> "", device |-> ""]

NoErr == "nil"
\* the steps of DiscoverDevices before the receive loop, in program order
SetupSteps == <<"resolve_multicast", "listen_conn", "resolve_server",
                "listen_server", "marshal", "send">>
\* outcomes of one lan.ControlDevice call
LanErrors == {"resolve_failed", "connect_failed", "send_failed"}
\* outcomes of the cloud request once client.Do is called
CloudOutcomes == {"ok", "transport_error", "http_status", "parse_error",
                  "api_error"}

VARIABLES
    useLAN,      \* GoveeService.useLAN
    call,        \* which call this behaviour is: "none", "control", "discover"
    deviceID,    \* ControlDevice parameter
    capability,  \* ControlDevice parameter: [Type, Instance, Value]
    pc,          \* position in GoveeService.ControlDevice
    idx,         \* index of the range loop over devices (1-based)
    ret,         \* error returned by ControlDevice ("none" before it returns)
    lanCalls,    \* lan.ControlDevice calls made: [idx, ip, cmd, data, err]
    cloudReqs,   \* number of cloud control requests issued (client.Do)
    dpc,         \* position in lan.DiscoverDevices
    timeout,     \* DiscoverDevices parameter
    now,         \* the clock
    deadline,    \* local variable deadline
    devices,     \* local variable devices (the accumulated responses)
    retDevices,  \* returned slice
    retErr,      \* returned error
    readLog,     \* history: what each returned read delivered, in order
    lateIter,    \* history: a loop iteration was entered at now >= deadline
    lateRead,    \* history: a read was started at now >= deadline
    failedStep,  \* history: the setup step that failed ("" when none did)
    pureIn,      \* the function applied on its own and its arguments
    pureOut,     \* what that function returned
    hpc,         \* position of the HTTP handler
    hreq,        \* the HTTP request being handled
    hresp,       \* the HTTP response written
    lpc,         \* per worker: position in the LAN operation it runs
    lop,         \* per worker: the LAN operation and its arguments
    socks,       \* per worker: the sockets it holds open
    port4002,    \* the worker whose socket is bound to UDP port 4002 (0: free)
    lerr,        \* per worker: the error the operation returned
    sent,        \* per worker: the datagrams the operation wrote, in order
    reads,       \* per worker: number of reply datagrams the operation read
    inbox,       \* per worker: what the network holds for its connected socket
    ownFailure   \* history, per worker: a step failed for a cause of its own

vars == <<useLAN, call, deviceID, capability, pc, idx, ret, lanCalls,
          cloudReqs, dpc, timeout, now, deadline, devices, retDevices,
          retErr, readLog, lateIter, lateRead, failedStep, pureIn, pureOut,
          hpc, hreq, hresp, lpc, lop, socks, port4002, lerr, sent, reads,
          inbox, ownFailure>>

svcVars == <<useLAN, call, deviceID, capability, pc, idx, ret, lanCalls,
             cloudReqs>>
discVars == <<dpc, timeout, now, deadline, devices, retDevices, retErr,
              readLog, lateIter, lateRead, failedStep>>
pureVars == <<pureIn, pureOut>>
httpVars == <<hpc, hreq, hresp>>
lanVars == <<lpc, lop, socks, port4002, lerr, sent, reads, inbox, ownFailure>>

(***************************************************************************)
(* lan: control commands                                                   *)
(***************************************************************************)
\* the lower bound is not applied
clampValue_upperOnly(value, min, max) ==
    IF value > max THEN max ELSE value

clampValue(value, min, max) ==
    IF value < min THEN min
    ELSE IF value > max THEN max
    ELSE value

TurnOn == [cmd |-> "turn", data |-> <<1>>]

TurnOff == [cmd |-> "turn", data |-> <<0>>]

SetBrightness(brightness) ==
    [cmd |-> "brightness",
     data |-> <<clampValue(brightness, BrightnessMin, BrightnessMax)>>]

\* data is <<r, g, b, colorTemInKelvin>>
SetColor(r, g, b) ==
    [cmd |-> "colorwc",
     data |-> <<clampValue(r, ChannelMin, ChannelMax),
                clampValue(g, ChannelMin, ChannelMax),
                clampValue(b, ChannelMin, ChannelMax), 0>>]

\* uint32(colorInt) for the non-negative values of the model: v mod 2^32,
\* computed on the two 16-bit halves
Uint32(v) == ((v \div 65536) % 65536) * 65536 + (v % 65536)

ShiftRight(v, n) == v \div (2 ^ n)

\* the mask taken as a modulus of 255
AndFF_mod255(v) == v % 255

\* & 0xFF
AndFF(v) == v % 256

(***************************************************************************)
(* service: the switch on capability.Type.  The result is the LAN command  *)
(* that is called, or NoCommand when no branch calls one (err stays nil).  *)
(***************************************************************************)
NoCommand == [cmd |-> "none", data |-> <<>>]

\* a colour-temperature instance is sent as a temperature, not as RGB
Translate_byInstance(cap) ==
    IF cap.Type = OnOff THEN
        IF cap.Value.num
        THEN (IF cap.Value.v = 1 THEN TurnOn ELSE TurnOff)
        ELSE NoCommand
    ELSE IF cap.Type = Range THEN
        IF cap.Value.num THEN SetBrightness(cap.Value.v) ELSE NoCommand
    ELSE IF cap.Type = ColorSetting THEN
        IF cap.Value.num
        THEN IF cap.Instance = "colorTemperatureK"
             THEN [cmd |-> "colorwc", data |-> <<0, 0, 0, cap.Value.v>>]
             ELSE SetColor(AndFF(ShiftRight(Uint32(cap.Value.v), 16)),
                           AndFF(ShiftRight(Uint32(cap.Value.v), 8)),
                           AndFF(Uint32(cap.Value.v)))
        ELSE NoCommand
    ELSE NoCommand

Translate(cap) ==
    IF cap.Type = OnOff THEN
        IF cap.Value.num
        THEN (IF cap.Value.v = 1 THEN TurnOn ELSE TurnOff)
        ELSE NoCommand
    ELSE IF cap.Type = Range THEN
        IF cap.Value.num THEN SetBrightness(cap.Value.v) ELSE NoCommand
    ELSE IF cap.Type = ColorSetting THEN
        IF cap.Value.num
        THEN SetColor(AndFF(ShiftRight(Uint32(cap.Value.v), 16)),
                      AndFF(ShiftRight(Uint32(cap.Value.v), 8)),
                      AndFF(Uint32(cap.Value.v)))
        ELSE NoCommand
    ELSE NoCommand

\* the filter on the device ID left out
Matches_any(device, id) == TRUE

\* if device.Msg.Data.Device == deviceID
Matches(device, id) == device.Device = id

\* the LAN flag ignored
TakesLanPath_always(flag) == TRUE

\* if s.useLAN
TakesLanPath(flag) == flag

\* the early return after a LAN command left out
ReturnsSuccess_never(err) == FALSE

\* if err == nil { return nil } after the switch
ReturnsSuccess(err) == err = NoErr

\* if capability.Type == "" || capability.Instance == ""
InvalidCapability(cap) == cap.Type = "" \/ cap.Instance = ""

(***************************************************************************)
(* lan: discovery                                                          *)
(***************************************************************************)
\* json.Unmarshal(buffer[:n], &resp)
Unmarshal(dg) ==
    IF dg.json
    THEN [err |-> NoErr, resp |-> [IP |-> dg.ip, Device |-> dg.device]]
    ELSE [err |-> "unmarshal_error", resp |-> [IP |-> "", Device |-> ""]]

\* the loop condition left out
LoopGuard_always(t, d) == TRUE

\* for time.Now().Before(deadline)
LoopGuard(t, d) == t < d

\* netErr.Timeout()
IsTimeout(err) == err = "timeout"

\* every read error ends the loop
AfterReadError_break(err, devs, rd, re) ==
    [dpc |-> "return", devices |-> devs, retDevices |-> rd, retErr |-> re]

\* a read error that is not a timeout returns nil and the error
AfterReadError_abort(err, devs, rd, re) ==
    IF IsTimeout(err)
    THEN [dpc |-> "return", devices |-> devs, retDevices |-> rd, retErr |-> re]
    ELSE [dpc |-> "returned", devices |-> devs, retDevices |-> <<>>,
          retErr |-> err]

\* the error branch of the read, as the new values of the position, of
\* devices and of the returned pair (rd, re): break on a timeout, else log
\* and continue; neither returns from DiscoverDevices
AfterReadError(err, devs, rd, re) ==
    IF IsTimeout(err)
    THEN [dpc |-> "return", devices |-> devs, retDevices |-> rd, retErr |-> re]
    ELSE [dpc |-> "guard", devices |-> devs, retDevices |-> rd, retErr |-> re]

\* a response equal to one already collected is dropped
AfterRead_dedup(dg, devs) ==
    IF Unmarshal(dg).err # NoErr
    THEN devs
    ELSE IF \E i \in 1..Len(devs) : devs[i] = Unmarshal(dg).resp
         THEN devs
         ELSE Append(devs, Unmarshal(dg).resp)

\* the decode branch of the read: skip a malformed datagram, else append
AfterRead(dg, devs) ==
    IF Unmarshal(dg).err # NoErr
    THEN devs
    ELSE Append(devs, Unmarshal(dg).resp)


\* the capability of no call
NoCapability ==
    [Type |-> "", Instance |-> "", Value |-> [num |-> FALSE, v |-> 0]]

\* no function has been applied on its own
NoPureCall ==
    [fn |-> "none", brightness |-> 0, cap1 |-> NoCapability,
     cap2 |-> NoCapability]

\* the request workers of the HTTP server that run LAN operations
Workers == {1, 2}

\* no LAN operation
NoOperation == [name |-> "none", cmd |-> "none", data |-> <<>>, ip |-> ""]

\* no HTTP request, no HTTP response
NoRequest ==
    [route |-> "none", method |-> "", body |-> "", sku |-> "", device |-> "",
     capability |-> NoCapability]

NoResponse ==
    [status |-> 0, success |-> FALSE, description |-> <<>>, vendor |-> <<>>]

(***************************************************************************)
(* Initial state: the service is constructed, no call has been made        *)
(***************************************************************************)
Init ==
    /\ useLAN \in BOOLEAN
    /\ call = "none"
    /\ deviceID = "d1"
    /\ capability = [Type |-> "", Instance |-> "", Value |-> [num |-> FALSE, v |-> 0]]
    /\ pc = "idle"
    /\ idx = 1
    /\ ret = "none"
    /\ lanCalls = <<>>
    /\ cloudReqs = 0
    /\ dpc = "idle"
    /\ timeout = 0
    /\ now = 0
    /\ deadline = 0
    /\ devices = <<>>
    /\ retDevices = <<>>
    /\ retErr = "none"
    /\ readLog = <<>>
    /\ lateIter = FALSE
    /\ lateRead = FALSE
    /\ failedStep = ""
    /\ pureIn = NoPureCall
    /\ pureOut = [cmd1 |-> NoCommand, cmd2 |-> NoCommand]
    /\ hpc = "idle"
    /\ hreq = NoRequest
    /\ hresp = NoResponse
    /\ lpc = [w \in Workers |-> "idle"]
    /\ lop = [w \in Workers |-> NoOperation]
    /\ socks = [w \in Workers |-> {}]
    /\ port4002 = 0
    /\ lerr = [w \in Workers |-> "none"]
    /\ sent = [w \in Workers |-> <<>>]
    /\ reads = [w \in Workers |-> 0]
    /\ inbox = [w \in Workers |-> "none"]
    /\ ownFailure = [w \in Workers |-> FALSE]

(***************************************************************************)
(* lan.DiscoverDevices(timeout)                                            *)
(***************************************************************************)
\* entry of DiscoverDevices with the given timeout
EnterDiscover(t) ==
    /\ dpc' = SetupSteps[1]
    /\ timeout' = t
    /\ UNCHANGED <<now, deadline, devices, retDevices, retErr, readLog,
                   lateIter, lateRead, failedStep>>

\* a direct call DiscoverDevices(timeout)
CallDiscoverDevices ==
    /\ call = "none"
    /\ \E t \in 0..MaxTimeout :
          /\ call' = "discover"
          /\ EnterDiscover(t)
    /\ UNCHANGED <<useLAN, deviceID, capability, pc, idx, ret, lanCalls,
                   cloudReqs>>
    /\ UNCHANGED <<pureVars, httpVars, lanVars>>

\* position after setup step number i succeeded
SetupNext(i) == IF i < Len(SetupSteps) THEN SetupSteps[i + 1] ELSE "init_loop"

\* the error DiscoverDevices returns when setup step number i fails
SetupError(i) == "failed_" \o SetupSteps[i]

\* one step before the receive loop: it succeeds, or DiscoverDevices
\* returns nil and the wrapped error
DiscoverSetup ==
    /\ \E i \in 1..Len(SetupSteps) :
          /\ dpc = SetupSteps[i]
          /\ \E ok \in BOOLEAN :
                IF ok
                THEN /\ dpc' = SetupNext(i)
                     /\ UNCHANGED <<retDevices, retErr, failedStep>>
                ELSE /\ dpc' = "returned"
                     /\ retDevices' = <<>>
                     /\ retErr' = SetupError(i)
                     /\ failedStep' = SetupSteps[i]
    /\ UNCHANGED <<timeout, now, deadline, devices, readLog, lateIter,
                   lateRead>>
    /\ UNCHANGED svcVars
    /\ UNCHANGED <<pureVars, httpVars, lanVars>>

\* var devices []ScanResponse; deadline := time.Now().Add(timeout)
DiscoverInitLoop ==
    /\ dpc = "init_loop"
    /\ devices' = <<>>
    /\ deadline' = now + timeout
    /\ dpc' = "guard"
    /\ UNCHANGED <<timeout, now, retDevices, retErr, readLog, lateIter,
                   lateRead, failedStep>>
    /\ UNCHANGED svcVars
    /\ UNCHANGED <<pureVars, httpVars, lanVars>>

\* for time.Now().Before(deadline)
DiscoverGuard ==
    /\ dpc = "guard"
    /\ IF LoopGuard(now, deadline)
       THEN /\ dpc' = "read"
            /\ lateIter' = (lateIter \/ now >= deadline)
       ELSE /\ dpc' = "return"
            /\ UNCHANGED lateIter
    /\ UNCHANGED <<timeout, now, deadline, devices, retDevices, retErr,
                   readLog, lateRead, failedStep>>
    /\ UNCHANGED svcVars
    /\ UNCHANGED <<pureVars, httpVars, lanVars>>

\* server.SetReadDeadline(deadline); the call of server.ReadFromUDP(buffer)
DiscoverReadStart ==
    /\ dpc = "read"
    /\ dpc' = "wait"
    /\ lateRead' = (lateRead \/ now >= deadline)
    /\ UNCHANGED <<timeout, now, deadline, devices, retDevices, retErr,
                   readLog, lateIter, failedStep>>
    /\ UNCHANGED svcVars
    /\ UNCHANGED <<pureVars, httpVars, lanVars>>

\* applies the outcome of the error branch
ApplyReadError(err) ==
    /\ dpc' = AfterReadError(err, devices, retDevices, retErr).dpc
    /\ devices' = AfterReadError(err, devices, retDevices, retErr).devices
    /\ retDevices' = AfterReadError(err, devices, retDevices, retErr).retDevices
    /\ retErr' = AfterReadError(err, devices, retDevices, retErr).retErr
    /\ UNCHANGED <<timeout, now, deadline, lateIter, lateRead, failedStep>>
    /\ UNCHANGED svcVars
    /\ UNCHANGED <<pureVars, httpVars, lanVars>>

\* ReadFromUDP returns a datagram before the read deadline
DiscoverReadDatagram ==
    /\ dpc = "wait"
    /\ now < deadline
    /\ Len(readLog) < MaxReads
    /\ \E dg \in Datagrams :
          /\ readLog' = Append(readLog, [err |-> NoErr, dg |-> dg])
          /\ devices' = AfterRead(dg, devices)
    /\ dpc' = "guard"
    /\ UNCHANGED <<timeout, now, deadline, retDevices, retErr, lateIter,
                   lateRead, failedStep>>
    /\ UNCHANGED svcVars
    /\ UNCHANGED <<pureVars, httpVars, lanVars>>

\* ReadFromUDP fails with an error that is not a timeout
DiscoverReadFailure ==
    /\ dpc = "wait"
    /\ now < deadline
    /\ Len(readLog) < MaxReads
    /\ readLog' = Append(readLog, [err |-> "io_error", dg |-> NoDatagram])
    /\ ApplyReadError("io_error")

\* the read deadline has passed: ReadFromUDP fails with a timeout
DiscoverReadTimeout ==
    /\ dpc = "wait"
    /\ now >= deadline
    /\ UNCHANGED readLog
    /\ ApplyReadError("timeout")

\* return devices, nil
DiscoverReturn ==
    /\ dpc = "return"
    /\ dpc' = "returned"
    /\ retDevices' = devices
    /\ retErr' = NoErr
    /\ UNCHANGED <<timeout, now, deadline, devices, readLog, lateIter,
                   lateRead, failedStep>>
    /\ UNCHANGED svcVars
    /\ UNCHANGED <<pureVars, httpVars, lanVars>>

\* the clock advances while the receive loop runs (no other code reads it)
Tick ==
    /\ dpc \in {"guard", "read", "wait"}
    /\ now <= deadline
    /\ now' = now + 1
    /\ UNCHANGED <<dpc, timeout, deadline, devices, retDevices, retErr,
                   readLog, lateIter, lateRead, failedStep>>
    /\ UNCHANGED svcVars
    /\ UNCHANGED <<pureVars, httpVars, lanVars>>

(***************************************************************************)
(* GoveeService.ControlDevice(ctx, sku, deviceID, capability)              *)
(***************************************************************************)
\* the call, with its arguments
CallControlDevice ==
    /\ call = "none"
    /\ call' = "control"
    /\ \E id \in DeviceIDs, t \in CapTypes, i \in CapInstances, v \in CapValues :
          /\ deviceID' = id
          /\ capability' = [Type |-> t, Instance |-> i, Value |-> v]
    /\ pc' = "start"
    /\ UNCHANGED <<useLAN, idx, ret, lanCalls, cloudReqs>>
    /\ UNCHANGED discVars
    /\ UNCHANGED <<pureVars, httpVars, lanVars>>

\* if s.useLAN { devices, err := lan.DiscoverDevices(2 * time.Second)
ControlStart ==
    /\ pc = "start"
    /\ IF TakesLanPath(useLAN)
       THEN /\ pc' = "discovering"
            /\ EnterDiscover(DiscoveryTimeout)
       ELSE /\ pc' = "cloud"
            /\ UNCHANGED discVars
    /\ UNCHANGED <<useLAN, call, deviceID, capability, idx, ret, lanCalls,
                   cloudReqs>>
    /\ UNCHANGED <<pureVars, httpVars, lanVars>>

\* DiscoverDevices has returned: if err == nil, range over devices,
\* else log and fall back to the cloud API
ControlDiscovered ==
    /\ pc = "discovering"
    /\ dpc = "returned"
    /\ IF retErr = NoErr
       THEN /\ pc' = "loop"
            /\ idx' = 1
       ELSE /\ pc' = "cloud"
            /\ UNCHANGED idx
    /\ UNCHANGED <<useLAN, call, deviceID, capability, ret, lanCalls,
                   cloudReqs>>
    /\ UNCHANGED discVars
    /\ UNCHANGED <<pureVars, httpVars, lanVars>>

\* the range loop is over
ControlLoopEnd ==
    /\ pc = "loop"
    /\ idx > Len(retDevices)
    /\ pc' = "cloud"
    /\ UNCHANGED <<useLAN, call, deviceID, capability, idx, ret, lanCalls,
                   cloudReqs>>
    /\ UNCHANGED discVars
    /\ UNCHANGED <<pureVars, httpVars, lanVars>>

\* an iteration over a device that is not the requested one
ControlLoopSkip ==
    /\ pc = "loop"
    /\ idx <= Len(retDevices)
    /\ ~Matches(retDevices[idx], deviceID)
    /\ idx' = idx + 1
    /\ UNCHANGED <<useLAN, call, deviceID, capability, pc, ret, lanCalls,
                   cloudReqs>>
    /\ UNCHANGED discVars
    /\ UNCHANGED <<pureVars, httpVars, lanVars>>

\* what the iteration does once err is known: return nil, or log and go on
\* with the next element of devices
ControlAfterSwitch(err) ==
    IF ReturnsSuccess(err)
    THEN /\ pc' = "done"
         /\ ret' = NoErr
         /\ UNCHANGED idx
    ELSE /\ idx' = idx + 1
         /\ UNCHANGED <<pc, ret>>

\* an iteration over a device with the requested ID: the switch on
\* capability.Type, the LAN command it calls (if any) and the test of err
ControlLoopMatch ==
    /\ pc = "loop"
    /\ idx <= Len(retDevices)
    /\ Matches(retDevices[idx], deviceID)
    /\ IF Translate(capability) = NoCommand
       THEN /\ UNCHANGED lanCalls
            /\ ControlAfterSwitch(NoErr)
       ELSE \E err \in {NoErr} \cup LanErrors :
              /\ lanCalls' = Append(lanCalls,
                                [idx |-> idx,
                                 ip |-> retDevices[idx].IP,
                                 cmd |-> Translate(capability).cmd,
                                 data |-> Translate(capability).data,
                                 err |-> err])
              /\ ControlAfterSwitch(err)
    /\ UNCHANGED <<useLAN, call, deviceID, capability, cloudReqs>>
    /\ UNCHANGED discVars
    /\ UNCHANGED <<pureVars, httpVars, lanVars>>

\* the cloud path: validation of the capability, then the control request
\* (json.Marshal of a decoded JSON value and NewRequestWithContext with the
\* fixed URL do not fail)
ControlCloud ==
    /\ pc = "cloud"
    /\ pc' = "done"
    /\ IF InvalidCapability(capability)
       THEN /\ ret' = "invalid_capability"
            /\ UNCHANGED cloudReqs
       ELSE /\ cloudReqs' = cloudReqs + 1
            /\ \E out \in CloudOutcomes :
                  ret' = IF out = "ok" THEN NoErr ELSE out
    /\ UNCHANGED <<useLAN, call, deviceID, capability, idx, lanCalls>>
    /\ UNCHANGED discVars
    /\ UNCHANGED <<pureVars, httpVars, lanVars>>

(***************************************************************************)
(* Specifications                                                          *)
(***************************************************************************)
Next ==
    \/ CallDiscoverDevices
    \/ DiscoverSetup
    \/ DiscoverInitLoop
    \/ DiscoverGuard
    \/ DiscoverReadStart
    \/ DiscoverReadDatagram
    \/ DiscoverReadFailure
    \/ DiscoverReadTimeout
    \/ DiscoverReturn
    \/ Tick
    \/ CallControlDevice
    \/ ControlStart
    \/ ControlDiscovered
    \/ ControlLoopEnd
    \/ ControlLoopSkip
    \/ ControlLoopMatch
    \/ ControlCloud

Spec == Init /\ [][Next]_vars

\* the steps DiscoverDevices takes by itself once it is called
DiscoverStep ==
    \/ DiscoverSetup
    \/ DiscoverInitLoop
    \/ DiscoverGuard
    \/ DiscoverReadStart
    \/ DiscoverReadTimeout
    \/ DiscoverReturn

\* direct calls of lan.DiscoverDevices(timeout) alone
DiscoverNext ==
    \/ CallDiscoverDevices
    \/ DiscoverSetup
    \/ DiscoverInitLoop
    \/ DiscoverGuard
    \/ DiscoverReadStart
    \/ DiscoverReadDatagram
    \/ DiscoverReadFailure
    \/ DiscoverReadTimeout
    \/ DiscoverReturn
    \/ Tick

DiscoverSpec == Init /\ [][DiscoverNext]_vars

\* the function runs once called, the clock advances and an expired read
\* deadline fires; what the network delivers is not constrained
FairDiscoverSpec ==
    DiscoverSpec /\ WF_vars(DiscoverStep) /\ WF_vars(Tick)

TypeOK ==
    /\ useLAN \in BOOLEAN
    /\ call \in {"none", "control", "discover"}
    /\ pc \in {"idle", "start", "discovering", "loop", "cloud", "done"}
    /\ idx \in 1..(MaxReads + 1)
    /\ cloudReqs \in 0..1
    /\ Len(lanCalls) <= MaxReads
    /\ now \in 0..(DiscoveryTimeout + MaxTimeout + 1)
    /\ Len(readLog) <= MaxReads

(***************************************************************************)
(* Properties of GoveeService.ControlDevice                                *)
(***************************************************************************)
\* the call is a ControlDevice call that took the LAN path and whose
\* discovery returned a list (nil error)
Discovered ==
    /\ call = "control"
    /\ useLAN
    /\ dpc = "returned"
    /\ retErr = NoErr

\* the discovery result holds an entry whose device field equals deviceID
HasMatch == \E i \in 1..Len(retDevices) : retDevices[i].Device = deviceID

\* index of the first entry, in receive order, with the requested device ID
FirstMatch ==
    CHOOSE i \in 1..Len(retDevices) :
        /\ retDevices[i].Device = deviceID
        /\ \A j \in 1..(i - 1) : retDevices[j].Device # deviceID

TranslatedTypes == {OnOff, Range, ColorSetting}

\* on_off, range or color_setting with a numeric value
Translatable ==
    capability.Type \in TranslatedTypes /\ capability.Value.num

Returned == call = "control" /\ pc = "done"

\* C1: with LAN mode on and a matching discovered device, a capability of a
\* type other than on_off, range, color_setting is a LAN-path failure: no
\* LAN command is sent, the cloud control request is issued, and the call
\* does not return success without any command having been sent (stated
\* for a capability whose type and instance are not empty).
C1_UnsupportedTypeFallsBack ==
    (Returned /\ Discovered /\ HasMatch
              /\ capability.Type # "" /\ capability.Instance # ""
              /\ capability.Type \notin TranslatedTypes)
        => /\ lanCalls = <<>>
           /\ cloudReqs = 1
           /\ (ret = NoErr => (lanCalls # <<>> \/ cloudReqs > 0))

\* C2: with LAN mode on and a matching discovered device, a capability of
\* type on_off, range or color_setting whose value is not a number sends no
\* LAN command, raises no error on the LAN path and then falls back to the
\* cloud control request (stated for a non-empty instance).
C2_NonNumericValueFallsBack ==
    (Returned /\ Discovered /\ HasMatch
              /\ capability.Instance # ""
              /\ capability.Type \in TranslatedTypes
              /\ ~capability.Value.num)
        => /\ lanCalls = <<>>
           /\ cloudReqs = 1

\* C3: after a LAN command has failed no further LAN command is sent in the
\* same call (the only network action that may follow is the cloud control
\* request), also when several discovered entries carry the device ID.
C3_NoLanRetryAfterFailure ==
    \A k \in 1..Len(lanCalls) :
        lanCalls[k].err # NoErr => k = Len(lanCalls)

\* C4 as stated: with LAN mode on, a matching discovered entry and a
\* translatable capability, no cloud control request is ever issued.
C4_NeverCloud ==
    (Discovered /\ HasMatch /\ Translatable) => cloudReqs = 0

\* C4: with LAN mode on, a matching discovered entry and a translatable
\* capability, a cloud control request is issued only after a LAN command
\* was sent and every LAN command of the call failed; after a LAN command
\* that succeeded no cloud control request is issued.
C4_CloudOnlyAfterLanFailure ==
    (Discovered /\ HasMatch /\ Translatable)
        => /\ (pc \in {"cloud", "done"} => lanCalls # <<>>)
           /\ (cloudReqs > 0 =>
                 \A k \in 1..Len(lanCalls) : lanCalls[k].err # NoErr)
           /\ ((\E k \in 1..Len(lanCalls) : lanCalls[k].err = NoErr) =>
                 /\ cloudReqs = 0
                 /\ pc = "done"
                 /\ ret = NoErr)

C4_Witness ==
    /\ Returned /\ Discovered /\ HasMatch /\ Translatable
    /\ Len(lanCalls) = 1
    /\ lanCalls[1].err = NoErr
    /\ cloudReqs = 0

C6_FirstMatchWins ==
    call = "control"
        => /\ \A k \in 1..Len(lanCalls) :
                 /\ lanCalls[k].idx \in 1..Len(retDevices)
                 /\ retDevices[lanCalls[k].idx].Device = deviceID
                 /\ lanCalls[k].ip = retDevices[lanCalls[k].idx].IP
           /\ (lanCalls # <<>> =>
                 /\ lanCalls[1].idx = FirstMatch
                 /\ lanCalls[1].ip = retDevices[FirstMatch].IP)
           /\ ((lanCalls # <<>> /\ lanCalls[1].err = NoErr) =>
                 /\ Len(lanCalls) = 1
                 /\ cloudReqs = 0
                 /\ pc = "done"
                 /\ ret = NoErr)

\* a device of another ID answered first, then the requested device from
\* two addresses; the command went to the first of the two and succeeded
C6_Witness ==
    /\ Returned
    /\ Len(retDevices) = 3
    /\ retDevices[1].Device # deviceID
    /\ retDevices[2].Device = deviceID
    /\ retDevices[3].Device = deviceID
    /\ retDevices[2].IP # retDevices[3].IP
    /\ Len(lanCalls) = 1
    /\ lanCalls[1].ip = retDevices[2].IP
    /\ lanCalls[1].err = NoErr
    /\ cloudReqs = 0

(***************************************************************************)
(* Properties of lan.DiscoverDevices                                       *)
(***************************************************************************)
\* DiscoverDevices has returned
DiscoverReturned == dpc = "returned"

\* the setup and the scan send succeeded: the receive loop was started
LoopStarted ==
    /\ failedStep = ""
    /\ dpc \in {"guard", "read", "wait", "return", "returned"}

\* a read failed with an error that is not a timeout
ReadFailed == \E k \in 1..Len(readLog) : readLog[k].err # NoErr

\* the datagrams of the log that decode, as ScanResponses, in receive order
WellFormed(log) ==
    LET ok == SelectSeq(log, LAMBDA e : e.err = NoErr /\ e.dg.json)
    IN  [i \in 1..Len(ok) |-> [IP |-> ok[i].dg.ip, Device |-> ok[i].dg.device]]

\* C7 as stated: a read that fails with a non-timeout error aborts the
\* discovery, which returns that error and none of the responses collected.
C7_ReadErrorIsFatal ==
    (DiscoverReturned /\ ReadFailed)
        => /\ retErr # NoErr
           /\ retDevices = <<>>

\* this step is a read that returns a non-timeout error
ReadFailureStep ==
    /\ Len(readLog') = Len(readLog) + 1
    /\ readLog'[Len(readLog')].err # NoErr

\* C7: a read that fails with a non-timeout error is not fatal: the loop
\* goes on with its next iteration, the responses collected so far are
\* kept, and the discovery returns all collected responses, those read
\* after the failure included, with a nil error.
C7_ReadErrorIsSkipped ==
    /\ [][ReadFailureStep =>
            /\ dpc' = "guard"
            /\ devices' = devices
            /\ retErr' = "none"]_vars
    /\ []((DiscoverReturned /\ ReadFailed)
            => /\ retErr = NoErr
               /\ retDevices = WellFormed(readLog))

\* a response, then a failed read, then another response: both are returned
C7_Witness ==
    /\ DiscoverReturned
    /\ Len(readLog) = 3
    /\ readLog[1].err = NoErr /\ readLog[1].dg.json
    /\ readLog[2].err # NoErr
    /\ readLog[3].err = NoErr /\ readLog[3].dg.json
    /\ Len(retDevices) = 2
    /\ retErr = NoErr

\* C8: DiscoverDevices returns a non-nil error only when a step before the
\* receive loop failed, and then returns no results; once the receive loop
\* has started it returns the accumulated list with a nil error.
C8_ErrorOnlyFromSetup ==
    DiscoverReturned
        => /\ (retErr # NoErr =>
                 /\ failedStep # ""
                 /\ retErr = "failed_" \o failedStep
                 /\ retDevices = <<>>
                 /\ readLog = <<>>)
           /\ (LoopStarted =>
                 /\ retErr = NoErr
                 /\ retDevices = devices)

\* the scan send failed; and, in another run, the loop ran over a failed read
C8_Witness ==
    /\ DiscoverReturned
    /\ \/ failedStep = "send" /\ retErr = "failed_send"
       \/ LoopStarted /\ ReadFailed /\ retDevices # <<>>

\* C9 as stated: the call terminates once the receive loop runs, a read
\* timeout ends the loop without error, and no read is started after the
\* deadline.
C9_NoReadAfterDeadline ==
    /\ (LoopStarted ~> DiscoverReturned)
    /\ []((LoopStarted /\ DiscoverReturned) => retErr = NoErr)
    /\ [](~lateRead)

\* C9: every call whose setup and scan send succeed terminates; no loop
\* iteration is entered once the deadline has passed and no read returns a
\* datagram or a non-timeout error at or after the deadline (a read started
\* after the deadline only times out); the loop ends without error, also
\* after malformed datagrams and failed reads.
C9_Terminates ==
    /\ (LoopStarted ~> DiscoverReturned)
    /\ []((LoopStarted /\ DiscoverReturned) => retErr = NoErr)
    /\ [](~lateIter)
    /\ [][readLog' # readLog => now < deadline]_vars
    /\ []((timeout = 0 /\ LoopStarted) => readLog = <<>>)

\* a scan that saw a malformed datagram and a failed read has returned
C9_Witness ==
    /\ DiscoverReturned /\ LoopStarted
    /\ \E k \in 1..Len(readLog) : readLog[k].err # NoErr
    /\ \E k \in 1..Len(readLog) : readLog[k].err = NoErr /\ ~readLog[k].dg.json
    /\ now > deadline

\* C10: the returned sequence is exactly the datagrams read that decode, in
\* receive order: a malformed datagram is skipped without ending the scan
\* or dropping later datagrams, and equal replies are not deduplicated.
C10_ResultIsWellFormedReads ==
    /\ (LoopStarted /\ dpc # "returned") => devices = WellFormed(readLog)
    /\ (LoopStarted /\ DiscoverReturned) => retDevices = WellFormed(readLog)

\* the same device answered twice, with a malformed datagram in between
C10_Witness ==
    /\ DiscoverReturned /\ LoopStarted
    /\ Len(readLog) = 3
    /\ readLog[1] = readLog[3]
    /\ readLog[1].err = NoErr /\ readLog[1].dg.json
    /\ readLog[2].err = NoErr /\ ~readLog[2].dg.json
    /\ Len(retDevices) = 2
    /\ retDevices[1] = retDevices[2]

(***************************************************************************)
(* The LAN command functions and the translator, applied on their own      *)
(***************************************************************************)
\* lan.SetBrightness(deviceIP, brightness): the request it sends
ApplySetBrightness ==
    /\ pureIn.fn = "none"
    /\ \E b \in BrightnessArgs :
          /\ pureIn' = [NoPureCall EXCEPT !.fn = "SetBrightness",
                                          !.brightness = b]
          /\ pureOut' = [cmd1 |-> SetBrightness(b), cmd2 |-> NoCommand]
    /\ UNCHANGED <<svcVars, discVars, httpVars, lanVars>>

\* the switch of ControlDevice on two capabilities that differ at most in
\* their Instance: the LAN command each of them calls
ApplyTranslate ==
    /\ pureIn.fn = "none"
    /\ \E cap \in TranslateCaps, i \in TranslateInstances :
          /\ pureIn' = [NoPureCall EXCEPT
                           !.fn = "Translate",
                           !.cap1 = cap,
                           !.cap2 = [cap EXCEPT !.Instance = i]]
          /\ pureOut' = [cmd1 |-> Translate(cap),
                         cmd2 |-> Translate([cap EXCEPT !.Instance = i])]
    /\ UNCHANGED <<svcVars, discVars, httpVars, lanVars>>

PureNext ==
    \/ ApplySetBrightness
    \/ ApplyTranslate

PureSpec == Init /\ [][PureNext]_vars

\* C12: for every integer brightness SetBrightness sends cmd "brightness"
\* with one value in [1,100]: a value below 1 is sent as 1, a value above
\* 100 as 100, a value inside the range unchanged.
C12_BrightnessClamped ==
    pureIn.fn = "SetBrightness"
        => /\ pureOut.cmd1.cmd = "brightness"
           /\ Len(pureOut.cmd1.data) = 1
           /\ pureOut.cmd1.data[1] \in 1..100
           /\ (pureIn.brightness < 1 => pureOut.cmd1.data[1] = 1)
           /\ (pureIn.brightness > 100 => pureOut.cmd1.data[1] = 100)
           /\ (pureIn.brightness \in 1..100 =>
                 pureOut.cmd1.data[1] = pureIn.brightness)

C12_Witness ==
    /\ pureIn.fn = "SetBrightness"
    /\ pureIn.brightness = 0
    /\ pureOut.cmd1 = [cmd |-> "brightness", data |-> <<1>>]

\* C13: for a packed colour value v in 0..2^24-1 given to a color_setting
\* capability the translator sends "colorwc" with channels r, g, b in
\* [0,255] such that r*65536 + g*256 + b = v (0xFF0000 gives 255, 0, 0):
\* the shifts and masks split v exactly and the clamping of SetColor
\* leaves the channels unchanged.
C13_PackedColorSplit ==
    (/\ pureIn.fn = "Translate"
     /\ pureIn.cap1.Type = ColorSetting
     /\ pureIn.cap1.Value.num
     /\ pureIn.cap1.Value.v \in 0..16777215)
        => /\ pureOut.cmd1.cmd = "colorwc"
           /\ Len(pureOut.cmd1.data) = 4
           /\ \A k \in 1..3 : pureOut.cmd1.data[k] \in 0..255
           /\ pureOut.cmd1.data[1] * 65536 + pureOut.cmd1.data[2] * 256
                 + pureOut.cmd1.data[3] = pureIn.cap1.Value.v
           /\ (pureIn.cap1.Value.v = 16711680 =>
                 pureOut.cmd1.data = <<255, 0, 0, 0>>)

C13_Witness ==
    /\ pureIn.fn = "Translate"
    /\ pureIn.cap1.Type = ColorSetting
    /\ pureIn.cap1.Value = [num |-> TRUE, v |-> 16711680]
    /\ pureOut.cmd1 = [cmd |-> "colorwc", data |-> <<255, 0, 0, 0>>]

\* C19: the LAN command depends on capability.Type and capability.Value
\* only: two requests that differ only in Instance call the same command
\* with the same data; a numeric range capability is sent as "brightness"
\* and a numeric color_setting capability, a colour-temperature instance
\* too, as "colorwc" with RGB channels and colorTemInKelvin = 0.
C19_InstanceIgnored ==
    pureIn.fn = "Translate"
        => /\ pureOut.cmd1 = pureOut.cmd2
           /\ ((pureIn.cap1.Type = Range /\ pureIn.cap1.Value.num) =>
                 pureOut.cmd1.cmd = "brightness")
           /\ ((pureIn.cap1.Type = ColorSetting /\ pureIn.cap1.Value.num) =>
                 /\ pureOut.cmd1.cmd = "colorwc"
                 /\ pureOut.cmd1.data[4] = 0)

\* a colour temperature and an RGB request with the same value
C19_Witness ==
    /\ pureIn.fn = "Translate"
    /\ pureIn.cap1.Type = ColorSetting
    /\ pureIn.cap1.Instance = "colorTemperatureK"
    /\ pureIn.cap2.Instance = "colorRgb"
    /\ pureIn.cap1.Value.num
    /\ pureOut.cmd1.cmd = "colorwc"
    /\ pureOut.cmd2 = pureOut.cmd1

(***************************************************************************)
(* The HTTP handlers: GoveeHandler.HandleControl and HandleDevices         *)
(***************************************************************************)
\* Texts are sequences of words and punctuation marks, so that
\* strings.Contains, which compares bytes and is case sensitive, is a test
\* for a contiguous subsequence.
ContainsWords(hay, needle) ==
    \E i \in 1..(Len(hay) - Len(needle) + 1) :
        SubSeq(hay, i, i + Len(needle) - 1) = needle

\* message and code of a cloud answer whose application code is not 200
VendorMessages == {"Unauthorized", "Device Not Found"}
VendorCodes == {"400", "401"}
NoVendor == <<>>

\* err.Error() of the errors GetDevices and ControlDevice return; status and
\* body of an HTTP answer that is not 200 are the environment's
ErrorText(err, vendor) ==
    IF err = "invalid_capability" THEN
        <<"invalid", "capability", ":", "type", "and", "instance", "are",
          "required">>
    ELSE IF err = "transport_error" THEN
        <<"making", "request", "to", "Govee", "API", ":", "dial", "tcp">>
    ELSE IF err = "http_status" THEN
        <<"govee", "api", "returned", "status", "503", ":", "body">>
    ELSE IF err = "parse_error" THEN
        <<"parsing", "response", "body", ":", "invalid", "character">>
    ELSE
        <<"govee", "api", "error", ":", vendor[1], "(", "code", ":",
          vendor[2], ")">>

\* the test HandleDevices makes on err.Error()
DevicesPassesError(text) ==
    ContainsWords(text, <<"Govee", "API", "returned", "status">>)

\* the test HandleControl makes on err.Error()
ControlPassesError(text) == ContainsWords(text, <<"govee", "api">>)

\* sendErrorResponse(w, message, statusCode, description)
ErrorResponse(statusCode, description, vendor) ==
    [status |-> statusCode, success |-> FALSE, description |-> description,
     vendor |-> vendor]

\* the capability check is left out
MissingCapabilityFields_never(cap) == FALSE

\* controlRequest.Capability.Type == "" || ...Capability.Instance == ""
MissingCapabilityFields(cap) == cap.Type = "" \/ cap.Instance = ""

\* the checks HandleControl makes before it calls the service, in the
\* order of the code: the response of the first check that fails, or
\* NoResponse when the request passes them all
ControlRejection(req) ==
    IF req.method # "POST" THEN
        ErrorResponse(405, <<"Only", "POST", "method", "is", "allowed">>,
                      NoVendor)
    ELSE IF req.body = "read_error" THEN
        ErrorResponse(400, <<"Failed", "to", "read", "request", "body">>,
                      NoVendor)
    ELSE IF req.body = "bad_json" THEN
        ErrorResponse(400, <<"Invalid", "request", "body", "format">>,
                      NoVendor)
    ELSE IF req.sku = "" \/ req.device = "" THEN
        ErrorResponse(400, <<"Missing", "required", "fields", ":", "sku",
                             "and", "device">>, NoVendor)
    ELSE IF MissingCapabilityFields(req.capability) THEN
        ErrorResponse(400, <<"Missing", "required", "capability", "fields",
                             ":", "type", "and", "instance">>, NoVendor)
    ELSE NoResponse

\* the requests to POST-only /api/v1/devices/control
ControlRequests ==
    [route : {"control"}, method : {"GET", "POST"},
     body : {"ok", "read_error", "bad_json"}, sku : {"", "H6008"},
     device : {"", "d1"},
     capability : [Type : CapTypes, Instance : CapInstances,
                   Value : CapValues]]

\* HandleControl up to the call of h.service.ControlDevice: a rejected
\* request is answered at once, another one enters the service
HandleControl ==
    /\ hpc = "idle"
    /\ call = "none"
    /\ \E req \in ControlRequests :
          /\ hreq' = req
          /\ IF ControlRejection(req) # NoResponse
             THEN /\ hresp' = ControlRejection(req)
                  /\ hpc' = "responded"
                  /\ UNCHANGED <<call, deviceID, capability, pc>>
             ELSE /\ hpc' = "in_service"
                  /\ call' = "control"
                  /\ deviceID' = req.device
                  /\ capability' = req.capability
                  /\ pc' = "start"
                  /\ UNCHANGED hresp
    /\ UNCHANGED <<useLAN, idx, ret, lanCalls, cloudReqs>>
    /\ UNCHANGED <<discVars, pureVars, lanVars>>

\* HandleControl after h.service.ControlDevice has returned: 500 with the
\* error text or the fixed description, or the success envelope
HandleControlReturn ==
    /\ hpc = "in_service"
    /\ pc = "done"
    /\ hpc' = "responded"
    /\ IF ret = NoErr
       THEN hresp' = [status |-> 200, success |-> TRUE,
                      description |-> <<"Device", "control", "command",
                                        "sent", "successfully">>,
                      vendor |-> NoVendor]
       ELSE \E m \in VendorMessages, c \in VendorCodes :
              LET vendor == IF ret = "api_error" THEN <<m, c>> ELSE NoVendor
                  text == ErrorText(ret, vendor)
              IN  hresp' = ErrorResponse(500,
                              IF ControlPassesError(text) THEN text
                              ELSE <<"Failed", "to", "control", "device">>,
                              vendor)
    /\ UNCHANGED hreq
    /\ UNCHANGED <<svcVars, discVars, pureVars, lanVars>>

\* HandleDevices with the GetDevices call it makes: one cloud request and
\* its outcome
HandleDevices ==
    /\ hpc = "idle"
    /\ call = "none"
    /\ hpc' = "responded"
    /\ \E method \in {"GET", "POST"} :
          /\ hreq' = [NoRequest EXCEPT !.route = "devices",
                                       !.method = method]
          /\ IF method # "GET"
             THEN /\ hresp' = ErrorResponse(405,
                                 <<"Only", "GET", "method", "is", "allowed">>,
                                 NoVendor)
                  /\ UNCHANGED cloudReqs
             ELSE /\ cloudReqs' = cloudReqs + 1
                  /\ \E out \in CloudOutcomes, m \in VendorMessages,
                        c \in VendorCodes :
                        LET vendor == IF out = "api_error" THEN <<m, c>>
                                      ELSE NoVendor
                            text == ErrorText(out, vendor)
                        IN  hresp' =
                              IF out = "ok"
                              THEN [status |-> 200, success |-> TRUE,
                                    description |-> <<>>,
                                    vendor |-> NoVendor]
                              ELSE ErrorResponse(500,
                                     IF DevicesPassesError(text) THEN text
                                     ELSE <<"Failed", "to", "fetch",
                                            "devices", "from", "Govee",
                                            "API">>,
                                     vendor)
    /\ UNCHANGED <<useLAN, call, deviceID, capability, pc, idx, ret,
                   lanCalls>>
    /\ UNCHANGED <<discVars, pureVars, lanVars>>

\* one HTTP request to the two cloud-backed routes, with the service and
\* discovery steps the control handler runs
HttpNext ==
    \/ HandleControl
    \/ HandleControlReturn
    \/ HandleDevices
    \/ ControlStart
    \/ ControlDiscovered
    \/ ControlLoopEnd
    \/ ControlLoopSkip
    \/ ControlLoopMatch
    \/ ControlCloud
    \/ DiscoverSetup
    \/ DiscoverInitLoop
    \/ DiscoverGuard
    \/ DiscoverReadStart
    \/ DiscoverReadDatagram
    \/ DiscoverReadFailure
    \/ DiscoverReadTimeout
    \/ DiscoverReturn
    \/ Tick

HttpSpec == Init /\ [][HttpNext]_vars

\* a POST to the control route with a readable JSON body
IsControlPost ==
    hreq.route = "control" /\ hreq.method = "POST" /\ hreq.body = "ok"

\* no LAN discovery, no LAN control datagram and no cloud request was made
NoNetworkCall ==
    /\ dpc = "idle"
    /\ readLog = <<>>
    /\ lanCalls = <<>>
    /\ cloudReqs = 0

\* C11: a POST /api/v1/devices/control whose capability.type or
\* capability.instance is missing is answered with HTTP 400 and the service
\* is never entered for it: no LAN discovery, no LAN control datagram and
\* no cloud request happens, with LAN mode enabled or disabled.
C11_MissingCapabilityRejected ==
    (IsControlPost /\
     (hreq.capability.Type = "" \/ hreq.capability.Instance = ""))
        => /\ hpc = "responded"
           /\ hresp.status = 400
           /\ ~hresp.success
           /\ pc = "idle"
           /\ NoNetworkCall

\* the request has sku and device, only the capability is incomplete, and
\* LAN mode is on
C11_Witness ==
    /\ IsControlPost
    /\ useLAN
    /\ hreq.sku # ""
    /\ hreq.device # ""
    /\ hreq.capability.Type = OnOff
    /\ hreq.capability.Instance = ""
    /\ hresp.status = 400
    /\ NoNetworkCall

\* the cloud answered the request with an application code other than 200
VendorErrorAnswered == hpc = "responded" /\ hresp.vendor # NoVendor

\* C18: when the cloud answers with a non-200 application code, the 500
\* response of GET /api/v1/devices and of POST /api/v1/devices/control
\* carries the vendor message and the vendor code in its description and
\* is never a success response.
C18_VendorErrorInDescription ==
    VendorErrorAnswered
        => /\ hresp.status = 500
           /\ ~hresp.success
           /\ ContainsWords(hresp.description, <<hresp.vendor[1]>>)
           /\ ContainsWords(hresp.description, <<hresp.vendor[2]>>)

(***************************************************************************)
(* The LAN calls of two request workers: lan.DiscoverDevices,              *)
(* lan.ControlDevice (through TurnOn, TurnOff, SetBrightness, SetColor or  *)
(* with cmd "devStatus") and lan.GetDeviceStatus, socket by socket         *)
(***************************************************************************)
ControlOps == {"TurnOn", "TurnOff", "SetBrightness", "SetColor"}

\* the steps of ControlDevice and GetDeviceStatus up to the write
ControlSteps == <<"resolve", "dial", "marshal", "write">>

\* a LAN function with the cmd and data it passes on
LanOperation(name, command, ip) ==
    [name |-> name, cmd |-> command.cmd, data |-> command.data, ip |-> ip]

\* the calls a worker makes
LanOperations ==
    {LanOperation("TurnOn", TurnOn, "ip1"),
     LanOperation("TurnOff", TurnOff, "ip1"),
     LanOperation("SetBrightness", SetBrightness(150), "ip1"),
     LanOperation("SetColor", SetColor(255, 0, 0), "ip1"),
     LanOperation("ControlDevice", [cmd |-> "devStatus", data |-> <<>>],
                  "ip1"),
     LanOperation("GetDeviceStatus", [cmd |-> "devStatus", data |-> <<>>],
                  "ip1"),
     LanOperation("DiscoverDevices", [cmd |-> "scan", data |-> <<>>], "")}

StepsOf(op) ==
    IF op.name = "DiscoverDevices" THEN SetupSteps ELSE ControlSteps

\* every call reads a reply
ReadsReply_always(op) == TRUE

\* if cmd == "devStatus" { ... conn.ReadFromUDP }; GetDeviceStatus reads
\* without a test
ReadsReply(op) == op.name = "GetDeviceStatus" \/ op.cmd = "devStatus"

\* only the send socket is closed
Deferred_connOnly(held) == held \cap {"conn"}

\* defer conn.Close(), defer server.Close(): the sockets closed at return
Deferred(held) == held

\* a read deadline ends the read without a datagram
ReadUnblocked_deadline(in) == TRUE

\* conn.ReadFromUDP without a read deadline returns once a datagram or a
\* socket error has arrived
ReadUnblocked(in) == in # "none"

\* deviceIP + ":4003"
ControlAddr(ip) == ip \o ":4003"

\* the call of worker w returns err: the deferred Close calls run
LanReturn(w, err) ==
    /\ lpc' = [lpc EXCEPT ![w] = "returned"]
    /\ lerr' = [lerr EXCEPT ![w] = err]
    /\ socks' = [socks EXCEPT ![w] = socks[w] \ Deferred(socks[w])]
    /\ port4002' = IF port4002 = w /\ "server" \in Deferred(socks[w])
                   THEN 0 ELSE port4002

\* a worker calls a LAN function
LanCall(w) ==
    /\ lpc[w] = "idle"
    /\ \E op \in LanOperations :
          /\ lop' = [lop EXCEPT ![w] = op]
          /\ lpc' = [lpc EXCEPT ![w] = StepsOf(op)[1]]
    /\ UNCHANGED <<socks, port4002, lerr, sent, reads, inbox, ownFailure>>
    /\ UNCHANGED <<svcVars, discVars, pureVars, httpVars>>

\* what step number i of the call of worker w does when it succeeds
LanStepDone(w, i) ==
    LET step == StepsOf(lop[w])[i]
        last == i = Len(StepsOf(lop[w]))
        opened == IF step \in {"listen_conn", "dial"} THEN {"conn"}
                  ELSE IF step = "listen_server" THEN {"server"}
                  ELSE {}
        written ==
            IF step = "write"
            THEN <<[to |-> ControlAddr(lop[w].ip), cmd |-> lop[w].cmd,
                    data |-> lop[w].data]>>
            ELSE IF step = "send"
            THEN <<[to |-> "239.255.255.250:4001", cmd |-> "scan",
                    data |-> <<>>]>>
            ELSE <<>>
    IN  /\ sent' = [sent EXCEPT ![w] = sent[w] \o written]
        /\ IF last /\ lop[w].name # "DiscoverDevices" /\ ~ReadsReply(lop[w])
           THEN LanReturn(w, NoErr)
           ELSE /\ socks' = [socks EXCEPT ![w] = socks[w] \cup opened]
                /\ port4002' = IF step = "listen_server" THEN w ELSE port4002
                /\ lpc' = [lpc EXCEPT ![w] =
                             IF ~last THEN StepsOf(lop[w])[i + 1]
                             ELSE IF lop[w].name = "DiscoverDevices"
                                  THEN "loop" ELSE "read"]
                /\ UNCHANGED lerr

\* one step of a call before its reads: it succeeds, or the call returns
\* the wrapped error.  net.ListenUDP on the fixed port 4002 fails while
\* another socket is bound to the port.
LanStep(w) ==
    /\ \E i \in 1..Len(StepsOf(lop[w])) :
          /\ lpc[w] = StepsOf(lop[w])[i]
          /\ IF lpc[w] = "listen_server" /\ port4002 # 0
             THEN /\ LanReturn(w, SetupError(i))
                  /\ UNCHANGED <<sent, ownFailure>>
             ELSE \E ok \in BOOLEAN :
                    IF ok
                    THEN /\ LanStepDone(w, i)
                         /\ UNCHANGED ownFailure
                    ELSE /\ LanReturn(w, "failed_" \o lpc[w])
                         /\ ownFailure' = [ownFailure EXCEPT ![w] = TRUE]
                         /\ UNCHANGED sent
    /\ UNCHANGED <<lop, reads, inbox>>
    /\ UNCHANGED <<svcVars, discVars, pureVars, httpVars>>

\* the network: a datagram (a reply or bytes that do not decode) or a
\* socket error arrives at the connected socket of a waiting status call
LanDeliver(w) ==
    /\ lpc[w] = "read"
    /\ inbox[w] = "none"
    /\ \E in \in {"reply", "garbage", "error"} :
          inbox' = [inbox EXCEPT ![w] = in]
    /\ UNCHANGED <<lpc, lop, socks, port4002, lerr, sent, reads, ownFailure>>
    /\ UNCHANGED <<svcVars, discVars, pureVars, httpVars>>

\* conn.ReadFromUDP(buffer) returns, then json.Unmarshal of the reply
LanRead(w) ==
    /\ lpc[w] = "read"
    /\ ReadUnblocked(inbox[w])
    /\ IF inbox[w] \in {"reply", "garbage"}
       THEN /\ reads' = [reads EXCEPT ![w] = reads[w] + 1]
            /\ IF inbox[w] = "reply"
               THEN /\ LanReturn(w, NoErr)
                    /\ UNCHANGED ownFailure
               ELSE /\ LanReturn(w, "failed_unmarshal")
                    /\ ownFailure' = [ownFailure EXCEPT ![w] = TRUE]
       ELSE /\ LanReturn(w, "failed_read")
            /\ ownFailure' = [ownFailure EXCEPT ![w] = TRUE]
            /\ UNCHANGED reads
    /\ UNCHANGED <<lop, sent, inbox>>
    /\ UNCHANGED <<svcVars, discVars, pureVars, httpVars>>

\* the receive loop of DiscoverDevices reads one datagram from its server
\* socket
LanCollect(w) ==
    /\ lpc[w] = "loop"
    /\ reads[w] < MaxLanReads
    /\ reads' = [reads EXCEPT ![w] = reads[w] + 1]
    /\ UNCHANGED <<lpc, lop, socks, port4002, lerr, sent, inbox, ownFailure>>
    /\ UNCHANGED <<svcVars, discVars, pureVars, httpVars>>

\* the deadline of the receive loop passes: return devices, nil
LanDeadline(w) ==
    /\ lpc[w] = "loop"
    /\ LanReturn(w, NoErr)
    /\ UNCHANGED <<lop, sent, reads, inbox, ownFailure>>
    /\ UNCHANGED <<svcVars, discVars, pureVars, httpVars>>

\* the worker is done with the result and is free for its next call
LanFinish(w) ==
    /\ lpc[w] = "returned"
    /\ lpc' = [lpc EXCEPT ![w] = "idle"]
    /\ lop' = [lop EXCEPT ![w] = NoOperation]
    /\ lerr' = [lerr EXCEPT ![w] = "none"]
    /\ sent' = [sent EXCEPT ![w] = <<>>]
    /\ reads' = [reads EXCEPT ![w] = 0]
    /\ inbox' = [inbox EXCEPT ![w] = "none"]
    /\ ownFailure' = [ownFailure EXCEPT ![w] = FALSE]
    /\ UNCHANGED <<socks, port4002>>
    /\ UNCHANGED <<svcVars, discVars, pureVars, httpVars>>

\* the steps the code of worker w takes by itself
LanProgram(w) ==
    \/ LanStep(w)
    \/ LanRead(w)
    \/ LanDeadline(w)

LanNext ==
    \E w \in Workers :
        \/ LanCall(w)
        \/ LanStep(w)
        \/ LanDeliver(w)
        \/ LanRead(w)
        \/ LanCollect(w)
        \/ LanDeadline(w)
        \/ LanFinish(w)

LanSpec == Init /\ [][LanNext]_vars

\* the call of worker w has returned
LanReturned(w) == lpc[w] = "returned"

\* C14: two concurrent discoveries share no state: a discovery fails only
\* for a failure of one of its own steps, as when it runs alone, never
\* because another request's discovery is in flight.
C14_DiscoveryIndependent ==
    \A w \in Workers :
        (/\ LanReturned(w)
         /\ lop[w].name = "DiscoverDevices"
         /\ lerr[w] # NoErr)
            => ownFailure[w]

\* C15: a call that has returned, with or without an error, holds no open
\* socket, and the fixed receive port is bound only by a discovery that is
\* still running: once all calls have returned the port is free.
C15_SocketsClosedAtReturn ==
    /\ \A w \in Workers :
          lpc[w] \in {"idle", "returned"} => socks[w] = {}
    /\ port4002 # 0 =>
          /\ "server" \in socks[port4002]
          /\ lop[port4002].name = "DiscoverDevices"
    /\ (\A w \in Workers : lpc[w] \in {"idle", "returned"}) => port4002 = 0

\* a discovery that bound both sockets has returned an error
C15_Witness ==
    \E w \in Workers :
        /\ LanReturned(w)
        /\ lerr[w] = "failed_send"
        /\ socks[w] = {}
        /\ port4002 = 0

\* C16: TurnOn, TurnOff, SetBrightness and SetColor write at most one
\* datagram, never read, and return nil exactly after one datagram with
\* their cmd and data went to deviceIP:4003; a step that fails ends the call
\* at once with an error and nothing further is sent.  A devStatus call
\* that returns nil has written one datagram and read exactly one reply.
C16_OneDatagramNoReply ==
    \A w \in Workers :
        /\ lop[w].name \in ControlOps =>
              /\ Len(sent[w]) <= 1
              /\ reads[w] = 0
              /\ lpc[w] # "read"
              /\ (LanReturned(w) /\ lerr[w] = NoErr) =>
                    sent[w] = <<[to |-> lop[w].ip \o ":4003",
                                 cmd |-> lop[w].cmd, data |-> lop[w].data]>>
              /\ (LanReturned(w) /\ lerr[w] # NoErr) => sent[w] = <<>>
              /\ ownFailure[w] => (LanReturned(w) /\ lerr[w] # NoErr)
        /\ lop[w].cmd = "devStatus" =>
              /\ Len(sent[w]) <= 1
              /\ reads[w] <= 1
              /\ (LanReturned(w) /\ lerr[w] = NoErr) =>
                    (Len(sent[w]) = 1 /\ reads[w] = 1)

\* SetColor has returned nil
C16_Witness ==
    \E w \in Workers :
        /\ lop[w].name = "SetColor"
        /\ LanReturned(w)
        /\ lerr[w] = NoErr
        /\ sent[w] = <<[to |-> "ip1:4003", cmd |-> "colorwc",
                        data |-> <<255, 0, 0, 0>>]>>
        /\ reads[w] = 0

\* worker w waits in the read of a status call and nothing has arrived
BlockedInRead(w) == lpc[w] = "read" /\ inbox[w] = "none"

\* C17: a status call (GetDeviceStatus, or ControlDevice with cmd
\* "devStatus") leaves its read only when a datagram or a socket error has
\* arrived; while nothing has arrived no step of the call is possible, so
\* it does not return for as long as the device does not reply.
C17_StatusReadBlocks ==
    /\ [](\A w \in Workers : BlockedInRead(w) => ~ENABLED LanProgram(w))
    /\ [][\A w \in Workers :
             (lpc[w] = "read" /\ lpc'[w] # "read") =>
                 /\ inbox[w] # "none"
                 /\ lpc'[w] = "returned"
                 /\ (lerr'[w] = NoErr => reads'[w] = 1)]_vars

\* a GetDeviceStatus call has written its request and waits
C17_Witness ==
    \E w \in Workers :
        /\ lop[w].name = "GetDeviceStatus"
        /\ BlockedInRead(w)
        /\ Len(sent[w]) = 1

====
